---- MODULE Spec2Model ----
(***************************************************************************)
(* The pending-approval workflow of the channel-to-storage relay bot:      *)
(* storage.py (the two process-wide maps), handlers/channel_handler.py     *)
(* (intake), handlers/callback_handler.py (approve / reject buttons) and   *)
(* handlers/message_handler.py (the free-text name submission).            *)
(*                                                                         *)
(* Each handler is one action.  Values the handler receives from outside   *)
(* (the pressing user, the callback data, the text, whether a Telegram,    *)
(* download or upload call raises) are inputs chosen with \E.  Time is     *)
(* counted in minutes.  A text is a sequence of one-character strings.     *)
(***************************************************************************)
EXTENDS Integers, Sequences, FiniteSets, TLC

(***************************************************************************)
(* Program constants                                                       *)
(***************************************************************************)
ADMIN_ID == 1
MAX_FILE_SIZE_MB == 50
MAX_IMAGE_SIZE_MB == 10
TIMEOUT_MINUTES == 10
MIN_NAME_LEN == 2
MAX_NAME_LEN == 255

ALLOWED_DOCUMENTS ==
    { "application/pdf",
      "application/msword",
      "application/vnd.openxmlformats-officedocument.wordprocessingml.document",
      "application/vnd.openxmlformats-officedocument.spreadsheetml.sheet" }

\* forbidden_chars with the last entry of the list left out
forbidden_chars_short == { "/", "\\", ":", "*", "?", "\"", "<", ">" }

forbidden_chars == { "/", "\\", ":", "*", "?", "\"", "<", ">", "|" }

(***************************************************************************)
(* Bounds of the model                                                     *)
(***************************************************************************)
MaxTime == 11

UserIds == { ADMIN_ID, ADMIN_ID + 1 }
ShortIds == { "1a2b3c4d", "9f8e7d6c" }
FileIds == { "file-A", "file-B" }
Mimes == { "application/pdf", "image/png" }
DocSizes == { MAX_FILE_SIZE_MB * 1024 * 1024, MAX_FILE_SIZE_MB * 1024 * 1024 + 1 }
PhotoSizes == { MAX_IMAGE_SIZE_MB * 1024 * 1024, MAX_IMAGE_SIZE_MB * 1024 * 1024 + 1 }
TickSteps == { TIMEOUT_MINUTES, TIMEOUT_MINUTES + 1 }

Repeat(c, n) == [i \in 1..n |-> c]

\* message.text of the inbound messages; <<>> stands for a message that has
\* no text at all (message.text is None: a sticker, a photo), which Telegram
\* never confuses with a text, as a text message is never empty.
NoText == <<>>
Texts ==
    { NoText,
      <<"a">>,
      <<"a", "b">>,
      <<"a", "/", "b">>,
      Repeat("a", MAX_NAME_LEN + 1) }

(***************************************************************************)
(* str methods used by the handlers                                        *)
(***************************************************************************)
IsSpace(c) == c \in { " ", "\t", "\n", "\r" }

RECURSIVE lstrip(_)
lstrip(s) == IF s # <<>> /\ IsSpace(Head(s)) THEN lstrip(Tail(s)) ELSE s

RECURSIVE rstrip(_)
rstrip(s) ==
    IF s # <<>> /\ IsSpace(s[Len(s)]) THEN rstrip(SubSeq(s, 1, Len(s) - 1)) ELSE s

strip(s) == rstrip(lstrip(s))

Contains(s, c) == \E i \in 1..Len(s) : s[i] = c

LowerChar(c) ==
    CASE c = "A" -> "a"
      [] c = "B" -> "b"
      [] c = "D" -> "d"
      [] c = "F" -> "f"
      [] c = "P" -> "p"
      [] c = "T" -> "t"
      [] OTHER -> c

lower(s) == [i \in 1..Len(s) |-> LowerChar(s[i])]

\* s.split(".")[-1]: what follows the last dot, the whole of s without a dot
LastDot(s) ==
    IF Contains(s, ".") THEN CHOOSE i \in 1..Len(s) :
                               /\ s[i] = "."
                               /\ \A j \in (i + 1)..Len(s) : s[j] # "."
    ELSE 0

split_last(s) == SubSeq(s, LastDot(s) + 1, Len(s))

(***************************************************************************)
(* The values held by pending_callbacks                                    *)
(***************************************************************************)
NoTime == 0 - 1

\* storage.PendingFile, the record the approve, reject and text handlers read
PendingFile(fid, mt, name, mime, size) ==
    [ type |-> "PendingFile",
      file_id |-> fid,
      media_type |-> mt,
      original_filename |-> name,
      mime_type |-> mime,
      size_bytes |-> size,
      approved_at |-> NoTime,
      waiting_for_name |-> FALSE ]

\* a plain str, which has none of PendingFile's attributes
StrValue(fid) == [ type |-> "str", file_id |-> fid ]

IsPendingFile(e) == e.type = "PendingFile"

VARIABLES
    pending_callbacks,  \* storage.pending_callbacks: short_id -> value
    admin_context,      \* storage.admin_context: admin_id -> context
    now,                \* datetime.now(), in minutes
    uploads,            \* history: the Upload Gateway calls that returned a
                        \* location, in order
    press,              \* history: the latest approve press on a held short_id
    last,               \* history: the event handled by the latest step
    checked,            \* the name the validation was last applied to, and
                        \* what it computed
    process             \* the environment the process was started in and how
                        \* far it has come

vars == << pending_callbacks, admin_context, now, uploads, press, last, checked,
           process >>

EmptyDict == [x \in {} |-> x]

\* d[k] = v of a Python dict
DictSet(d, k, v) == [x \in DOMAIN d \cup {k} |-> IF x = k THEN v ELSE d[x]]

\* del d[k]
DictDel(d, k) == [x \in DOMAIN d \ {k} |-> d[x]]

\* An approve press on a held short_id: who pressed, when (NoTime once the
\* presser has sent a text since), and whether the presser's text for this
\* short_id had come more than TIMEOUT_MINUTES after an earlier press.
NoPress == [ user |-> 0, short_id |-> "-", at |-> NoTime, expired |-> FALSE ]
Pressed(user, short_id, at, old) ==
    [ user |-> user, short_id |-> short_id, at |-> at,
      expired |-> old.expired /\ old.user = user /\ old.short_id = short_id ]
NoFile == [ mime |-> "-", size |-> 0, file_id |-> "-" ]
\* The variables of the environment that config.py requires
Credentials ==
    { "TELEGRAM_BOT_TOKEN", "TELEGRAM_CHANNEL_ID", "ADMIN_ID",
      "GITHUB_TOKEN", "GITHUB_REPO" }

\* The process once dispatcher.start_polling has been reached
Polling == [ env |-> Credentials, phase |-> "polling" ]

NoLocation == [ folder |-> "-", date |-> "-", name |-> <<>> ]
NoCheck == [ text |-> <<>>, original_filename |-> <<>>, new_filename |-> <<>>,
            violation |-> "-", final_filename |-> <<>>, location |-> NoLocation ]

\* Outcomes of the calls a handler awaits: TRUE returns, FALSE raises.
\*   msg: bot.send_message / message.reply    photo: bot.send_photo
\*   edit: bot.edit_message_text / _caption   answer: query.answer
\*   dl: bot.get_file / bot.download_file     up: upload_file_to_github
AllOk == [ msg |-> TRUE, photo |-> TRUE, edit |-> TRUE, answer |-> TRUE,
           dl |-> TRUE, up |-> TRUE ]
Envs == [ msg : BOOLEAN, photo : BOOLEAN, edit : BOOLEAN, answer : BOOLEAN,
          dl : BOOLEAN, up : BOOLEAN ]

\* The event a step handled.  pre: the status of short_id before the step;
\* press: for a text message the sender's press before the step, for an
\* approve the earlier press on the same short_id (NoPress without one);
\* reply: the last answer or reply that reached the acting user; raised: an
\* exception left the handler.
Event(h, u, sid, txt, pre, prs, file, env, reply, raised) ==
    [ handler |-> h, user |-> u, short_id |-> sid, text |-> txt, pre |-> pre,
      press |-> prs, file |-> file, env |-> env, reply |-> reply,
      raised |-> raised ]

\* status of a short_id as the workflow sees it
StatusOf(cb, sid) ==
    IF sid \notin DOMAIN cb THEN "absent"
    ELSE IF IsPendingFile(cb[sid]) /\ cb[sid].waiting_for_name THEN "AwaitingRename"
    ELSE "AwaitingReview"

Init ==
    /\ pending_callbacks = EmptyDict
    /\ admin_context = EmptyDict
    /\ now = 0
    /\ uploads = <<>>
    /\ press = NoPress
    /\ last = Event("start", 0, "-", NoText, "-", NoPress, NoFile, AllOk, "none", FALSE)
    /\ checked = NoCheck
    /\ process = Polling

(***************************************************************************)
(* storage.py                                                              *)
(***************************************************************************)
clear_admin_context(ctx, admin_id) ==
    IF admin_id \in DOMAIN ctx THEN DictDel(ctx, admin_id) ELSE ctx

clear_pending_file(cb, short_id) ==
    IF short_id \in DOMAIN cb THEN DictDel(cb, short_id) ELSE cb

(***************************************************************************)
(* handlers/channel_handler.py                                             *)
(***************************************************************************)
\* ask_admin_for_approval storing, instead of the str, a PendingFile built
\* from the media item.
ask_admin_for_approval_record(short_id, file, is_photo, env) ==
    /\ pending_callbacks' =
           DictSet(pending_callbacks, short_id,
                   PendingFile(file.file_id,
                               IF is_photo THEN "PHOTO" ELSE "DOCUMENT",
                               << "a", ".", "p", "d", "f" >>, file.mime, file.size))
    /\ press' = IF press.short_id = short_id THEN NoPress ELSE press
    /\ last' = Event(IF is_photo THEN "photo" ELSE "document", 0, short_id, NoText,
                     StatusOf(pending_callbacks, short_id), NoPress, file, env,
                     IF (is_photo /\ env.photo) \/ env.msg
                     THEN "approval_request" ELSE "none",
                     FALSE)

\* ask_admin_for_approval: short_id is str(uuid.uuid4())[:8], any of ShortIds;
\* what is stored under it is media_item.telegram_file_id, a str.
ask_admin_for_approval(short_id, file, is_photo, env) ==
    /\ pending_callbacks' = DictSet(pending_callbacks, short_id, StrValue(file.file_id))
    /\ press' = IF press.short_id = short_id THEN NoPress ELSE press
    /\ last' = Event(IF is_photo THEN "photo" ELSE "document", 0, short_id, NoText,
                     StatusOf(pending_callbacks, short_id), NoPress, file, env,
                     IF (is_photo /\ env.photo) \/ env.msg
                     THEN "approval_request" ELSE "none",
                     FALSE)

\* Dropped telling the reviewer that the post was turned down
Dropped_notifies(h, file, env) ==
    /\ pending_callbacks' = pending_callbacks
    /\ press' = press
    /\ last' = Event(h, 0, "-", NoText, "-", NoPress, file, env,
                     IF env.msg THEN "dropped_notice" ELSE "none", FALSE)

Dropped(h, file, env) ==
    /\ pending_callbacks' = pending_callbacks
    /\ press' = press
    /\ last' = Event(h, 0, "-", NoText, "-", NoPress, file, env, "none", FALSE)

\* handle_document with >= for > in the size check
handle_document_ge(file_id, mime_type, file_size, short_id, msg_ok) ==
    LET file == [ mime |-> mime_type, size |-> file_size, file_id |-> file_id ]
        env == [ AllOk EXCEPT !.msg = msg_ok ]
        max_size_bytes == MAX_FILE_SIZE_MB * 1024 * 1024
    IN /\ IF mime_type \notin ALLOWED_DOCUMENTS THEN Dropped("document", file, env)
          ELSE IF file_size >= max_size_bytes THEN Dropped("document", file, env)
          ELSE ask_admin_for_approval(short_id, file, FALSE, env)
       /\ UNCHANGED << admin_context, now, uploads, checked, process >>

handle_document(file_id, mime_type, file_size, short_id, msg_ok) ==
    LET file == [ mime |-> mime_type, size |-> file_size, file_id |-> file_id ]
        env == [ AllOk EXCEPT !.msg = msg_ok ]
        max_size_bytes == MAX_FILE_SIZE_MB * 1024 * 1024
    IN /\ IF mime_type \notin ALLOWED_DOCUMENTS THEN Dropped("document", file, env)
          ELSE IF file_size > max_size_bytes THEN Dropped("document", file, env)
          ELSE ask_admin_for_approval(short_id, file, FALSE, env)
       /\ UNCHANGED << admin_context, now, uploads, checked, process >>

\* handle_photo with message.photo[0] for message.photo[-1]
handle_photo_first(file_id, sizes, short_id, photo_ok, msg_ok) ==
    LET file_size == sizes[1]
        file == [ mime |-> "image/jpeg", size |-> file_size, file_id |-> file_id,
                  sizes |-> sizes ]
        env == [ AllOk EXCEPT !.photo = photo_ok, !.msg = msg_ok ]
        max_size_bytes == MAX_IMAGE_SIZE_MB * 1024 * 1024
    IN /\ IF file_size > max_size_bytes THEN Dropped("photo", file, env)
          ELSE ask_admin_for_approval(short_id, file, TRUE, env)
       /\ UNCHANGED << admin_context, now, uploads, checked, process >>

\* sizes: the file_size of message.photo, lowest resolution first; the event
\* keeps them next to the size of the variant the handler picked
handle_photo(file_id, sizes, short_id, photo_ok, msg_ok) ==
    LET file_size == sizes[Len(sizes)]
        file == [ mime |-> "image/jpeg", size |-> file_size, file_id |-> file_id,
                  sizes |-> sizes ]
        env == [ AllOk EXCEPT !.photo = photo_ok, !.msg = msg_ok ]
        max_size_bytes == MAX_IMAGE_SIZE_MB * 1024 * 1024
    IN /\ IF file_size > max_size_bytes THEN Dropped("photo", file, env)
          ELSE ask_admin_for_approval(short_id, file, TRUE, env)
       /\ UNCHANGED << admin_context, now, uploads, checked, process >>

(***************************************************************************)
(* handlers/callback_handler.py                                            *)
(***************************************************************************)
\* The answer that reaches the user when the handler means to answer `text`:
\* a query.answer that raises inside try is answered again by the except
\* clause, which raises as well, and this second exception leaves the handler.
Answered(text, answer_ok) == IF answer_ok THEN text ELSE "none"

\* handle_approve opening the reviewer's session, its short_id not yet set,
\* before it reads the file
handle_approve_session_first(user, short_id, send_ok, answer_ok) ==
    LET env == [ AllOk EXCEPT !.msg = send_ok, !.answer = answer_ok ]
        pre == StatusOf(pending_callbacks, short_id)
        earlier == IF press.short_id = short_id THEN press ELSE NoPress
        ev(reply) == Event("approve", user, short_id, NoText, pre, earlier, NoFile,
                           env, Answered(reply, answer_ok), ~answer_ok)
    IN /\ IF short_id \notin DOMAIN pending_callbacks THEN
              /\ UNCHANGED << pending_callbacks, admin_context, press >>
              /\ last' = ev("not_found")
          ELSE IF ~IsPendingFile(pending_callbacks[short_id]) THEN
              /\ UNCHANGED pending_callbacks
              /\ admin_context' =
                     DictSet(admin_context, user,
                             [ last_approved_short_id |-> "-",
                               waiting_since |-> now ])
              /\ press' = Pressed(user, short_id, now, press)
              /\ last' = ev("error")
          ELSE
              /\ pending_callbacks' =
                     [ pending_callbacks EXCEPT ![short_id].approved_at = now,
                                                ![short_id].waiting_for_name = TRUE ]
              /\ admin_context' =
                     DictSet(admin_context, user,
                             [ last_approved_short_id |-> short_id,
                               waiting_since |-> now ])
              /\ press' = Pressed(user, short_id, now, press)
              /\ last' = ev(IF send_ok THEN "enter_name" ELSE "error")
       /\ UNCHANGED << now, uploads, checked, process >>

\* handle_approve without the return that ends its not-found branch: the
\* handler goes on with pending_file = None and answers the AttributeError.
handle_approve_no_return(user, short_id, send_ok, answer_ok) ==
    LET env == [ AllOk EXCEPT !.msg = send_ok, !.answer = answer_ok ]
        pre == StatusOf(pending_callbacks, short_id)
        earlier == IF press.short_id = short_id THEN press ELSE NoPress
        ev(reply) == Event("approve", user, short_id, NoText, pre, earlier, NoFile,
                           env, Answered(reply, answer_ok), ~answer_ok)
    IN /\ IF \/ short_id \notin DOMAIN pending_callbacks
             \/ ~IsPendingFile(pending_callbacks[short_id])
          THEN
              /\ UNCHANGED << pending_callbacks, admin_context >>
              /\ press' = IF short_id \in DOMAIN pending_callbacks
                          THEN Pressed(user, short_id, now, press) ELSE press
              /\ last' = ev("error")
          ELSE
              /\ pending_callbacks' =
                     [ pending_callbacks EXCEPT ![short_id].approved_at = now,
                                                ![short_id].waiting_for_name = TRUE ]
              /\ admin_context' =
                     DictSet(admin_context, user,
                             [ last_approved_short_id |-> short_id,
                               waiting_since |-> now ])
              /\ press' = Pressed(user, short_id, now, press)
              /\ last' = ev(IF send_ok THEN "enter_name" ELSE "error")
       /\ UNCHANGED << now, uploads, checked, process >>

handle_approve(user, short_id, send_ok, answer_ok) ==
    LET env == [ AllOk EXCEPT !.msg = send_ok, !.answer = answer_ok ]
        pre == StatusOf(pending_callbacks, short_id)
        earlier == IF press.short_id = short_id THEN press ELSE NoPress
        ev(reply) == Event("approve", user, short_id, NoText, pre, earlier, NoFile,
                           env, Answered(reply, answer_ok), ~answer_ok)
    IN /\ IF short_id \notin DOMAIN pending_callbacks THEN
              \* "файл не найден"
              /\ UNCHANGED << pending_callbacks, admin_context, press >>
              /\ last' = ev("not_found")
          ELSE IF ~IsPendingFile(pending_callbacks[short_id]) THEN
              \* pending_file.original_filename of a str: AttributeError
              /\ UNCHANGED << pending_callbacks, admin_context >>
              /\ press' = Pressed(user, short_id, now, press)
              /\ last' = ev("error")
          ELSE
              /\ pending_callbacks' =
                     [ pending_callbacks EXCEPT ![short_id].approved_at = now,
                                                ![short_id].waiting_for_name = TRUE ]
              /\ admin_context' =
                     DictSet(admin_context, user,
                             [ last_approved_short_id |-> short_id,
                               waiting_since |-> now ])
              /\ press' = Pressed(user, short_id, now, press)
              /\ last' = ev(IF send_ok THEN "enter_name" ELSE "error")
       /\ UNCHANGED << now, uploads, checked, process >>

handle_reject(user, short_id, answer_ok) ==
    LET env == [ AllOk EXCEPT !.answer = answer_ok ]
        pre == StatusOf(pending_callbacks, short_id)
        ev(reply) == Event("reject", user, short_id, NoText, pre, NoPress, NoFile,
                           env, Answered(reply, answer_ok), ~answer_ok)
        dropped == IF press.short_id = short_id THEN NoPress ELSE press
    IN /\ IF short_id \notin DOMAIN pending_callbacks THEN
              \* "Файл не найден"
              /\ UNCHANGED << pending_callbacks, admin_context, press >>
              /\ last' = ev("not_found")
          ELSE IF ~IsPendingFile(pending_callbacks[short_id]) THEN
              \* pending_file.media_type of a str: AttributeError
              /\ UNCHANGED << pending_callbacks, admin_context >>
              /\ press' = dropped
              /\ last' = ev("error")
          ELSE
              /\ pending_callbacks' = DictDel(pending_callbacks, short_id)
              /\ admin_context' =
                     IF /\ user \in DOMAIN admin_context
                        /\ admin_context[user].last_approved_short_id = short_id
                     THEN clear_admin_context(admin_context, user)
                     ELSE admin_context
              /\ press' = dropped
              /\ last' = ev("rejected")
       /\ UNCHANGED << now, uploads, checked, process >>

(***************************************************************************)
(* handlers/message_handler.py                                             *)
(***************************************************************************)
\* The name the file is uploaded under
final_filename_of(new_filename, original_filename) ==
    IF ~Contains(new_filename, ".")
    THEN new_filename \o <<".">> \o lower(split_last(original_filename))
    ELSE new_filename

\* name_violation with >= for > in the upper length check
name_violation_off_by_one(new_filename) ==
    IF new_filename = <<>> \/ Len(new_filename) < MIN_NAME_LEN THEN "too_short"
    ELSE IF Len(new_filename) >= MAX_NAME_LEN THEN "too_long"
    ELSE IF \E c \in forbidden_chars : Contains(new_filename, c) THEN "forbidden"
    ELSE "none"

\* The rule a stripped name breaks, "none" for a name that passes
name_violation(new_filename) ==
    IF new_filename = <<>> \/ Len(new_filename) < MIN_NAME_LEN THEN "too_short"
    ELSE IF Len(new_filename) > MAX_NAME_LEN THEN "too_long"
    ELSE IF \E c \in forbidden_chars : Contains(new_filename, c) THEN "forbidden"
    ELSE "none"

\* What handle_admin_message leaves behind: the two maps, the uploads made
\* and the reply that reached the sender.  A message.reply that raises is
\* caught by the outer except clause, whose own reply raises as well and is
\* swallowed: nothing after the raising call is executed.
admin_message_result(admin_id, text, env) ==
    LET keep(reply) == [ cb |-> pending_callbacks, ctx |-> admin_context,
                         up |-> uploads, reply |-> reply ]
        replied(reply) == keep(IF env.msg THEN reply ELSE "none")
        cleared == clear_admin_context(admin_context, admin_id)
    IN IF admin_id \notin DOMAIN admin_context THEN keep("none")
       ELSE
       LET context == admin_context[admin_id]
           short_id == context.last_approved_short_id
           waiting_since == context.waiting_since
       IN IF now - waiting_since > TIMEOUT_MINUTES THEN
              IF env.msg THEN [ keep("timeout") EXCEPT !.ctx = cleared ]
              ELSE keep("none")
          ELSE IF short_id \notin DOMAIN pending_callbacks THEN
              IF env.msg THEN [ keep("not_found") EXCEPT !.ctx = cleared ]
              ELSE keep("none")
          ELSE
          LET pending_file == pending_callbacks[short_id]
          IN IF ~IsPendingFile(pending_file) THEN
                 \* pending_file.waiting_for_name of a str: AttributeError
                 replied("error")
             ELSE IF ~pending_file.waiting_for_name THEN keep("none")
             ELSE IF text = NoText THEN
                 \* None.strip(): AttributeError
                 replied("error")
             ELSE
             LET new_filename == strip(text)
                 final_filename ==
                     final_filename_of(new_filename, pending_file.original_filename)
                 media_type ==
                     IF pending_file.media_type = "PHOTO" THEN "PHOTO" ELSE "DOCUMENT"
                 uploaded == Append(uploads, [ short_id |-> short_id,
                                               filename |-> final_filename,
                                               media_type |-> media_type ])
             IN IF name_violation(new_filename) # "none"
                THEN replied(name_violation(new_filename))
                ELSE IF ~env.msg THEN keep("none")
                ELSE IF env.dl /\ env.up THEN
                    IF env.edit THEN
                        [ cb |-> clear_pending_file(pending_callbacks, short_id),
                          ctx |-> cleared, up |-> uploaded, reply |-> "uploaded" ]
                    ELSE
                        \* the edit of the success text raises, the edit of the
                        \* error text raises again: the outer except replies
                        [ keep("error") EXCEPT !.up = uploaded ]
                ELSE
                    IF env.edit
                    THEN [ keep("upload_error") EXCEPT !.ctx = cleared ]
                    ELSE keep("error")

\* handle_admin_message without the return for a sender that has no
\* context: context["last_approved_short_id"] of None raises, and the outer
\* except clause replies
handle_admin_message_no_return(admin_id, text, env) ==
    LET res == IF admin_id \notin DOMAIN admin_context
               THEN [ cb |-> pending_callbacks, ctx |-> admin_context,
                      up |-> uploads,
                      reply |-> IF env.msg THEN "error" ELSE "none" ]
               ELSE admin_message_result(admin_id, text, env)
        mine == press.user = admin_id
    IN /\ pending_callbacks' = res.cb
       /\ admin_context' = res.ctx
       /\ uploads' = res.up
       /\ press' = IF ~mine THEN press
                   ELSE [ press EXCEPT !.at = NoTime,
                                       !.expired =
                                           IF press.at = NoTime THEN press.expired
                                           ELSE now - press.at > TIMEOUT_MINUTES ]
       /\ last' = Event("message", admin_id,
                        IF mine THEN press.short_id ELSE "-",
                        text,
                        IF mine THEN StatusOf(pending_callbacks, press.short_id)
                        ELSE "-",
                        IF mine THEN press ELSE NoPress,
                        NoFile, env, res.reply, FALSE)
       /\ UNCHANGED << now, checked, process >>

handle_admin_message(admin_id, text, env) ==
    LET res == admin_message_result(admin_id, text, env)
        mine == press.user = admin_id
    IN /\ pending_callbacks' = res.cb
       /\ admin_context' = res.ctx
       /\ uploads' = res.up
       /\ press' = IF ~mine THEN press
                   ELSE [ press EXCEPT !.at = NoTime,
                                       !.expired =
                                           IF press.at = NoTime THEN press.expired
                                           ELSE now - press.at > TIMEOUT_MINUTES ]
       /\ last' = Event("message", admin_id,
                        IF mine THEN press.short_id ELSE "-",
                        text,
                        IF mine THEN StatusOf(pending_callbacks, press.short_id)
                        ELSE "-",
                        IF mine THEN press ELSE NoPress,
                        NoFile, env, res.reply, FALSE)
       /\ UNCHANGED << now, checked, process >>

\* A text that has arrived for a file of the given name and is yet to be
\* looked at
Arrived(text, original_filename) ==
    [ text |-> text, original_filename |-> original_filename,
      new_filename |-> <<>>, violation |-> "-", final_filename |-> <<>>,
      location |-> NoLocation ]

\* Lines 70-120 on their own: the name is stripped, validated and, when it
\* passes, completed to the final filename.
check_name(text, original_filename) ==
    LET new_filename == strip(text)
        violation == name_violation(new_filename)
    IN /\ checked = Arrived(text, original_filename)
       /\ checked' = [ text |-> text,
                       original_filename |-> original_filename,
                       new_filename |-> new_filename,
                       violation |-> violation,
                       final_filename |->
                           IF violation = "none"
                           THEN final_filename_of(new_filename, original_filename)
                           ELSE <<>>,
                       location |-> NoLocation ]
       /\ UNCHANGED << pending_callbacks, admin_context, now, uploads, press, last,
                       process >>

(***************************************************************************)
(* services/github_service.py                                              *)
(***************************************************************************)
\* The object upload_file_to_github creates for a file of the given name:
\* media_folder/date/safe_filename, where safe_filename is a fresh
\* uuid4().hex and the extension of the name ("bin" for a name without a dot)
github_path(filename, date_path, uuid_hex) ==
    LET file_ext == IF Contains(filename, ".") THEN split_last(filename)
                    ELSE << "b", "i", "n" >>
    IN [ folder |-> "media", date |-> date_path,
         name |-> uuid_hex \o << "." >> \o file_ext ]

\* Line 132 on its own: the name that passed is handed to the Upload Gateway,
\* which returns the location of the object it created
upload_file_to_github(date_path, uuid_hex) ==
    /\ checked.violation = "none"
    /\ checked.location = NoLocation
    /\ checked' = [ checked EXCEPT
                        !.location = github_path(checked.final_filename,
                                                 date_path, uuid_hex) ]
    /\ UNCHANGED << pending_callbacks, admin_context, now, uploads, press, last,
                    process >>

(***************************************************************************)
(* The clock and the event loop                                            *)
(***************************************************************************)
\* Tick with a sweep that drops the file whose approval has timed out
Tick_sweep(d) ==
    /\ now + d <= MaxTime
    /\ now' = now + d
    /\ pending_callbacks' =
           IF press.at # NoTime /\ now + d - press.at > TIMEOUT_MINUTES
           THEN clear_pending_file(pending_callbacks, press.short_id)
           ELSE pending_callbacks
    /\ last' = Event("tick", 0, "-", NoText, "-", NoPress, NoFile, AllOk, "none", FALSE)
    /\ UNCHANGED << admin_context, uploads, press, checked, process >>

Tick(d) ==
    /\ now + d <= MaxTime
    /\ now' = now + d
    /\ last' = Event("tick", 0, "-", NoText, "-", NoPress, NoFile, AllOk, "none", FALSE)
    /\ UNCHANGED << pending_callbacks, admin_context, uploads, press, checked, process >>

\* message.photo of the posts: one variant, or two with either one the larger
PhotoVariants ==
    { <<MAX_IMAGE_SIZE_MB * 1024 * 1024>> }
        \cup { v \in PhotoSizes \X PhotoSizes : v[1] # v[2] }

\* the calls of handle_admin_message: at most one of them raises
MessageEnvs ==
    { e \in Envs : /\ e.photo /\ e.answer
                   /\ Cardinality({ k \in { "msg", "edit", "dl", "up" } : ~e[k] }) <= 1 }

Next ==
    \/ \E f \in FileIds, m \in Mimes, z \in DocSizes, h \in ShortIds, ok \in BOOLEAN :
           handle_document(f, m, z, h, ok)
    \/ \E f \in FileIds, v \in PhotoVariants, h \in ShortIds, p \in BOOLEAN, ok \in BOOLEAN :
           handle_photo(f, v, h, p, ok)
    \/ \E u \in UserIds, h \in ShortIds, s \in BOOLEAN, a \in BOOLEAN :
           handle_approve(u, h, s, a)
    \/ \E u \in UserIds, h \in ShortIds, a \in BOOLEAN :
           handle_reject(u, h, a)
    \/ \E u \in UserIds, t \in Texts, e \in MessageEnvs :
           handle_admin_message(u, t, e)
    \/ \E d \in TickSteps : Tick(d)

Spec == Init /\ [][Next]_vars

(***************************************************************************)
(* The name validation applied to texts of every interesting shape         *)
(***************************************************************************)
NameLens ==
    { 0, MIN_NAME_LEN - 1, MIN_NAME_LEN, MIN_NAME_LEN + 1,
      MAX_NAME_LEN - 1, MAX_NAME_LEN, MAX_NAME_LEN + 1 }

\* characters a text may hold besides letters
NameChars == { "/", "\\", ":", "*", "?", "\"", "<", ">", "|", ".", " ", "-" }

NameCores ==
    { Repeat("a", n) : n \in NameLens }
        \cup { << c >> : c \in NameChars }
        \cup { << "a", c, "b" >> : c \in NameChars }
        \cup { Repeat("a", MAX_NAME_LEN - 1) \o << c >> : c \in NameChars }

Pads == { <<>>, << " " >>, << "\n", "\t" >> }

\* message.text: a core between two runs of whitespace, never empty
NameTexts == { l \o c \o r : l \in Pads, c \in NameCores, r \in Pads } \ { <<>> }

\* original_filename of the files: document.file_name, photo_<id>.jpg
OriginalNames ==
    { << "a", ".", "p", "d", "f" >>,
      << "A", ".", "P", "D", "F" >>,
      << "a", ".", "b", ".", "d", "o", "c", "x" >>,
      << "r", "e", "p", "o", "r", "t" >>,
      << "p", "h", "o", "t", "o", "_", "7", ".", "j", "p", "g" >> }

\* datetime.utcnow() as %Y-%m-%d, and uuid.uuid4().hex cut to two digits
DatePaths == { "2025-11-23" }
UuidHexes == { << "0", "f" >>, << "a", "1" >> }

NameNext ==
    \/ \E t \in NameTexts, o \in OriginalNames : check_name(t, o)
    \/ \E d \in DatePaths, u \in UuidHexes : upload_file_to_github(d, u)

NameInit ==
    /\ pending_callbacks = EmptyDict
    /\ admin_context = EmptyDict
    /\ now = 0
    /\ uploads = <<>>
    /\ press = NoPress
    /\ last = Event("start", 0, "-", NoText, "-", NoPress, NoFile, AllOk, "none", FALSE)
    /\ checked \in { Arrived(t, o) : t \in NameTexts, o \in OriginalNames }
    /\ process = Polling

NameSpec == NameInit /\ [][NameNext]_vars

(***************************************************************************)
(* Startup: config.py is executed when main.py imports it, then main runs  *)
(***************************************************************************)
Unset(name) == name \notin process.env

\* load_config without the check of GITHUB_REPO
load_config_no_repo ==
    /\ process.phase = "importing"
    /\ process' =
           [ process EXCEPT
                 !.phase =
                     IF Unset("TELEGRAM_BOT_TOKEN") THEN "aborted"
                     ELSE IF Unset("TELEGRAM_CHANNEL_ID") THEN "aborted"
                     ELSE IF Unset("ADMIN_ID") THEN "aborted"
                     ELSE IF Unset("GITHUB_TOKEN") THEN "aborted"
                     ELSE "configured" ]
    /\ UNCHANGED << pending_callbacks, admin_context, now, uploads, press, last,
                    checked >>

\* telegram_config = TelegramConfig(); github_config = GitHubConfig(): each
\* __post_init__ raises ValueError for a variable that is not set, and the
\* import of config fails with it
load_config ==
    /\ process.phase = "importing"
    /\ process' =
           [ process EXCEPT
                 !.phase =
                     IF Unset("TELEGRAM_BOT_TOKEN") THEN "aborted"
                     ELSE IF Unset("TELEGRAM_CHANNEL_ID") THEN "aborted"
                     ELSE IF Unset("ADMIN_ID") THEN "aborted"
                     ELSE IF Unset("GITHUB_TOKEN") THEN "aborted"
                     ELSE IF Unset("GITHUB_REPO") THEN "aborted"
                     ELSE "configured" ]
    /\ UNCHANGED << pending_callbacks, admin_context, now, uploads, press, last,
                    checked >>

\* main up to dispatcher.start_polling: get_storage_stats, get_me and the
\* start message; an exception of these is logged and raised again
main(calls_ok) ==
    /\ process.phase = "configured"
    /\ process' = [ process EXCEPT !.phase = IF calls_ok THEN "polling" ELSE "aborted" ]
    /\ UNCHANGED << pending_callbacks, admin_context, now, uploads, press, last,
                    checked >>

BootInit ==
    /\ pending_callbacks = EmptyDict
    /\ admin_context = EmptyDict
    /\ now = 0
    /\ uploads = <<>>
    /\ press = NoPress
    /\ last = Event("start", 0, "-", NoText, "-", NoPress, NoFile, AllOk, "none", FALSE)
    /\ checked = NoCheck
    /\ process \in { [ env |-> e, phase |-> "importing" ] : e \in SUBSET Credentials }

BootNext ==
    \/ load_config
    \/ \E ok \in BOOLEAN : main(ok)
    \/ process.phase = "polling" /\ Next

BootSpec == BootInit /\ [][BootNext]_vars

TypeOK ==
    /\ DOMAIN pending_callbacks \subseteq ShortIds
    /\ \A h \in DOMAIN pending_callbacks :
           \/ pending_callbacks[h] \in { StrValue(f) : f \in FileIds }
           \/ IsPendingFile(pending_callbacks[h])
    /\ DOMAIN admin_context \subseteq UserIds
    /\ now \in 0..MaxTime

(***************************************************************************)
(* Properties                                                              *)
(***************************************************************************)
\* The latest step handled a text of the reviewer who had pressed approve on
\* a held short_id and had sent no text since.
NameSubmitted ==
    /\ last.handler = "message"
    /\ last.user = ADMIN_ID
    /\ last.text # NoText
    /\ last.press.at # NoTime
    /\ last.pre # "absent"

InTime == now - last.press.at <= TIMEOUT_MINUTES

ValidText(text) == text # NoText /\ name_violation(strip(text)) = "none"

ContextOf(short_id, since) ==
    [ last_approved_short_id |-> short_id, waiting_since |-> since ]

\* C1: an approve press of the reviewer on a short_id held in AwaitingReview
\* leaves the candidate in AwaitingRename with approved_at stamped, and the
\* reviewer's context pointing at this short_id, waiting since the approval.
C1_ApproveOpensRename ==
    (last.handler = "approve" /\ last.user = ADMIN_ID /\ last.pre = "AwaitingReview")
    => /\ StatusOf(pending_callbacks, last.short_id) = "AwaitingRename"
       /\ pending_callbacks[last.short_id].approved_at = now
       /\ ADMIN_ID \in DOMAIN admin_context
       /\ admin_context[ADMIN_ID] = ContextOf(last.short_id, now)

\* C2: of two approve presses on the same short_id only the first makes the
\* AwaitingReview -> AwaitingRename transition; the second is answered as an
\* invalid transition and leaves approved_at and the context, with its
\* waiting_since, as the first press set them.
C2_SecondApproveRejected ==
    (/\ last.handler = "approve"
     /\ last.user = ADMIN_ID
     /\ last.press.user = ADMIN_ID
     /\ last.press.at # NoTime
     /\ last.env.answer)
    => /\ last.pre = "AwaitingRename"
       /\ last.reply = "invalid_transition"
       /\ pending_callbacks[last.short_id].approved_at = last.press.at
       /\ ADMIN_ID \in DOMAIN admin_context
       /\ admin_context[ADMIN_ID] = ContextOf(last.short_id, last.press.at)

\* C3: a reject press on a held short_id removes it, whatever its status,
\* and makes no Upload Gateway call; a reject of an absent short_id changes
\* nothing.
C3_RejectRemoves ==
    [][ (last'.handler = "reject")
        => /\ last'.short_id \notin DOMAIN pending_callbacks'
           /\ uploads' = uploads
           /\ last'.pre = "absent" => pending_callbacks' = pending_callbacks ]_vars

\* C4: an approve or reject press on a short_id that is not held changes
\* neither pending_callbacks nor admin_context nor the uploads, and the
\* answer that reaches the user is the not-found answer.
C4_AbsentHandleNoChange ==
    [][ (last'.handler \in { "approve", "reject" } /\ last'.pre = "absent")
        => /\ pending_callbacks' = pending_callbacks
           /\ admin_context' = admin_context
           /\ uploads' = uploads
           /\ last'.env.answer => (last'.reply = "not_found" /\ ~last'.raised) ]_vars

\* C4 witness: with a file held, approve was pressed on another, absent
\* short_id and answered not-found.
C4_Witness ==
    /\ last.handler = "approve"
    /\ last.pre = "absent"
    /\ last.reply = "not_found"
    /\ DOMAIN pending_callbacks # {}

\* C5: a press or a text of anyone but the designated reviewer is turned
\* away before any lookup: nothing changes and the answer does not depend
\* on what pending_callbacks or admin_context hold (a denial, or silence).
C5_OthersDenied ==
    [][ (last'.handler \in { "approve", "reject", "message" } /\ last'.user # ADMIN_ID)
        => /\ pending_callbacks' = pending_callbacks
           /\ admin_context' = admin_context
           /\ uploads' = uploads
           /\ last'.reply \in { "denied", "none" } ]_vars

\* What a step uploaded
Uploaded == { uploads'[i] : i \in (Len(uploads) + 1)..Len(uploads') }

\* C6: a valid name sent in time by the reviewer after approving, with the
\* download, the upload and the messaging all succeeding, is uploaded: the
\* short_id is gone from pending_callbacks, the reviewer's context is
\* cleared and the reviewer is told the location; and whenever a step uploads
\* a short_id, that short_id is no longer held after it.
C6_UploadRemoves ==
    [][ /\ (NameSubmitted /\ InTime /\ ValidText(last.text) /\ last.env = AllOk)'
           => /\ \E u \in Uploaded : u.short_id = last'.short_id
              /\ last'.reply = "uploaded"
              /\ ADMIN_ID \notin DOMAIN admin_context'
        /\ \A u \in Uploaded : u.short_id \notin DOMAIN pending_callbacks' ]_vars

\* C7: when the download or the upload fails for a valid name sent in time,
\* the error is reported, the reviewer's context is cleared and the candidate
\* stays held, still approved (not back in AwaitingReview).
C7_FailureKeepsCandidate ==
    [][ (/\ NameSubmitted /\ InTime /\ ValidText(last.text)
         /\ last.env.msg /\ last.env.edit
         /\ ~(last.env.dl /\ last.env.up))'
        => /\ last'.reply = "upload_error"
           /\ ADMIN_ID \notin DOMAIN admin_context'
           /\ StatusOf(pending_callbacks', last'.short_id) = "AwaitingRename"
           /\ Uploaded = {} ]_vars

\* C8: a name sent in time that breaks a rule is answered with that rule and
\* changes nothing: the context with its waiting_since and the candidate's
\* AwaitingRename status stay, and nothing is downloaded or uploaded.
C8_InvalidNameKeepsSession ==
    [][ (/\ NameSubmitted /\ InTime /\ last.env.msg
         /\ name_violation(strip(last.text)) # "none")'
        => /\ last'.reply = name_violation(strip(last'.text))
           /\ pending_callbacks' = pending_callbacks
           /\ admin_context' = admin_context
           /\ ADMIN_ID \in DOMAIN admin_context
           /\ admin_context[ADMIN_ID] = ContextOf(last'.short_id, last'.press.at)
           /\ StatusOf(pending_callbacks, last'.short_id) = "AwaitingRename"
           /\ Uploaded = {} ]_vars

\* C9: a name that arrives more than TIMEOUT_MINUTES after the approval is
\* answered with the timeout message, uploads nothing even when it is valid,
\* and clears the context; one that arrives at TIMEOUT_MINUTES or before is
\* not timed out.
C9_LateNameTimesOut ==
    [][ (NameSubmitted /\ last.env.msg)'
        => IF InTime' THEN last'.reply # "timeout"
           ELSE /\ last'.reply = "timeout"
                /\ Uploaded = {}
                /\ ADMIN_ID \notin DOMAIN admin_context' ]_vars

\* C10: after a timed-out submission no text of the reviewer is uploaded
\* until the reviewer approves again; after approving the same short_id
\* again, a valid name sent in time is uploaded.
C10_ReapproveAfterTimeout ==
    [][ (last.handler = "message" /\ last.user = ADMIN_ID /\ last.press.expired)'
        => IF last'.press.at = NoTime THEN Uploaded = {}
           ELSE (InTime /\ ValidText(last.text) /\ last.env = AllOk
                 /\ last.pre # "absent")'
                => /\ last'.reply = "uploaded"
                   /\ \E u \in Uploaded : u.short_id = last'.short_id ]_vars

\* The ids under which the uploads so far were made equal to h
UploadsOf(h) == { i \in 1..Len(uploads) : uploads[i].short_id = h }

Admitted == last.handler \in { "document", "photo" } /\ last.short_id # "-"

\* C13: the short_id under which a post is stored is not held at that
\* moment: storing never overwrites an entry of pending_callbacks.
C13_InsertFresh == Admitted => last.pre = "absent"

\* C14: a post within the limits leaves under its short_id a PendingFile
\* that is not approved (approved_at unset, not waiting for a name) and
\* carries the file id, the media type, the MIME type and the size of the
\* post.
C14_IntakeCreatesCandidate ==
    Admitted
    => /\ last.short_id \in DOMAIN pending_callbacks
       /\ IsPendingFile(pending_callbacks[last.short_id])
       /\ StatusOf(pending_callbacks, last.short_id) = "AwaitingReview"
       /\ pending_callbacks[last.short_id].approved_at = NoTime
       /\ pending_callbacks[last.short_id].file_id = last.file.file_id
       /\ pending_callbacks[last.short_id].media_type =
              (IF last.handler = "photo" THEN "PHOTO" ELSE "DOCUMENT")
       /\ pending_callbacks[last.short_id].mime_type = last.file.mime
       /\ pending_callbacks[last.short_id].size_bytes = last.file.size

C16_PhotoAdmission ==
    last.handler = "photo"
    => /\ Admitted <=> last.file.sizes[Len(last.file.sizes)]
                           <= MAX_IMAGE_SIZE_MB * 1024 * 1024
       /\ Admitted => /\ last.short_id \in DOMAIN pending_callbacks
                      /\ pending_callbacks[last.short_id].file_id = last.file.file_id

\* C16 witness: a photo whose last variant has exactly the maximum size, and
\* whose other variant is larger, is held.
C16_Witness ==
    /\ last.handler = "photo"
    /\ Len(last.file.sizes) = 2
    /\ last.file.sizes[2] = MAX_IMAGE_SIZE_MB * 1024 * 1024
    /\ last.file.sizes[1] > MAX_IMAGE_SIZE_MB * 1024 * 1024
    /\ last.short_id \in DOMAIN pending_callbacks
    /\ pending_callbacks[last.short_id].file_id = last.file.file_id

\* The post of the latest step is one the limits turn down
OverLimits ==
    \/ /\ last.handler = "document"
       /\ \/ last.file.mime \notin ALLOWED_DOCUMENTS
          \/ last.file.size > MAX_FILE_SIZE_MB * 1024 * 1024
    \/ /\ last.handler = "photo"
       /\ last.file.sizes[Len(last.file.sizes)] > MAX_IMAGE_SIZE_MB * 1024 * 1024

\* C17: a post that the limits turn down changes neither pending_callbacks
\* nor admin_context nor the uploads, and sends the reviewer nothing.
C17_DropChangesNothing ==
    [][ OverLimits'
        => /\ pending_callbacks' = pending_callbacks
           /\ admin_context' = admin_context
           /\ uploads' = uploads
           /\ last'.reply = "none" ]_vars

\* C17 witness: with a file held, a document of a MIME type outside the
\* list was posted, with the messaging working, and nothing was sent.
C17_Witness ==
    /\ last.handler = "document"
    /\ last.file.mime \notin ALLOWED_DOCUMENTS
    /\ last.env.msg
    /\ last.reply = "none"
    /\ DOMAIN pending_callbacks # {}

\* The text without its leading and trailing whitespace, taken as the part
\* between its first and its last character that is not whitespace
Trimmed(s) ==
    LET solid == { i \in 1..Len(s) : ~IsSpace(s[i]) }
    IN IF solid = {} THEN <<>>
       ELSE SubSeq(s, CHOOSE i \in solid : \A j \in solid : i <= j,
                      CHOOSE i \in solid : \A j \in solid : j <= i)

LengthOk(s) == Len(Trimmed(s)) >= 2 /\ Len(Trimmed(s)) <= 255

ReservedChars == { "/", "\\", ":", "*", "?", "\"", "<", ">", "|" }

HasReserved(s) == \E i \in 1..Len(s) : s[i] \in ReservedChars

Validated == checked.violation # "-"

\* C18: the validation passes a name on length exactly when the trimmed
\* text has from 2 to 255 characters.
C18_LengthRule ==
    Validated
    => (checked.violation \notin { "too_short", "too_long" } <=> LengthOk(checked.text))

\* C18 witness: a text with whitespace around 255 characters passed, the
\* name taken being the 255 characters.
C18_Witness ==
    /\ Validated
    /\ checked.text # Trimmed(checked.text)
    /\ Len(Trimmed(checked.text)) = 255
    /\ checked.violation = "none"
    /\ checked.new_filename = Trimmed(checked.text)

\* C19: a name with one of the nine reserved characters does not pass, and
\* a name of valid length with none of them passes.
C19_ReservedRule ==
    Validated
    => /\ HasReserved(checked.text) => checked.violation # "none"
       /\ (LengthOk(checked.text) /\ ~HasReserved(checked.text))
              => checked.violation = "none"

\* C19 witness: a name of valid length with a "|" in it was turned down for
\* its characters.
C19_Witness ==
    /\ Validated
    /\ LengthOk(checked.text)
    /\ \E i \in 1..Len(checked.text) : checked.text[i] = "|"
    /\ checked.violation = "forbidden"

\* What follows the last dot of a name that has a dot
ExtensionOf(s) ==
    LET dots == { i \in 1..Len(s) : s[i] = "." }
    IN SubSeq(s, (CHOOSE i \in dots : \A j \in dots : j <= i) + 1, Len(s))

HasDot(s) == \E i \in 1..Len(s) : s[i] = "."

\* C20: the final filename of a name that passed is the name itself when it
\* has an extension; otherwise it is the name with the extension of the
\* original filename (compared without regard to case) appended, and the
\* name alone when the original filename has no extension to append.
C20_FinalFilename ==
    (Validated /\ checked.violation = "none")
    => IF HasDot(checked.new_filename)
       THEN checked.final_filename = checked.new_filename
       ELSE IF HasDot(checked.original_filename)
       THEN lower(checked.final_filename) =
                lower(checked.new_filename \o << "." >>
                          \o ExtensionOf(checked.original_filename))
       ELSE checked.final_filename = checked.new_filename

\* C21: end to end: for a post that was taken in, when the reviewer presses
\* approve on its short_id and then sends a valid name in time, with the
\* download, the upload and the messaging succeeding, the short_id is no
\* longer held, the file has been uploaded and the reviewer has been told
\* the location.
C21_EndToEnd ==
    [][ (/\ last.handler = "approve"
         /\ last.user = ADMIN_ID
         /\ last.pre # "absent"
         /\ last.env = AllOk
         /\ (NameSubmitted /\ InTime /\ ValidText(last.text) /\ last.env = AllOk)'
         /\ last'.short_id = last.short_id)
        => /\ last'.short_id \notin DOMAIN pending_callbacks'
           /\ \E u \in Uploaded : u.short_id = last'.short_id
           /\ last'.reply = "uploaded" ]_vars

C23_TextWithoutSession ==
    [][ (last'.handler = "message" /\ last'.user \notin DOMAIN admin_context)
        => /\ pending_callbacks' = pending_callbacks
           /\ admin_context' = admin_context
           /\ uploads' = uploads
           /\ last'.reply = "none" ]_vars

\* C23 witness: with a file held, the reviewer, who has no session, sent a
\* text that would do as a name, with the messaging working, and got no
\* answer.
C23_Witness ==
    /\ last.handler = "message"
    /\ last.user = ADMIN_ID
    /\ ValidText(last.text)
    /\ last.env.msg
    /\ last.reply = "none"
    /\ ADMIN_ID \notin DOMAIN admin_context
    /\ DOMAIN pending_callbacks # {}

\* C24: no exception leaves a handler: whatever call raises while a post, a
\* press or a text is handled, the handler catches it.
C24_FailuresCaught == ~last.raised

\* C27: when a reject of a held short_id is followed by another press on the
\* same short_id, the second press is answered as not found or already
\* processed and changes nothing.
C27_SecondActionDetected ==
    [][ (/\ last.handler = "reject"
         /\ last.pre # "absent"
         /\ last.env.answer
         /\ last'.handler \in { "approve", "reject" }
         /\ last'.short_id = last.short_id
         /\ last'.env.answer)
        => /\ last'.reply \in { "not_found", "already_processed" }
           /\ pending_callbacks' = pending_callbacks
           /\ admin_context' = admin_context ]_vars

\* C28: the object the Upload Gateway creates bears the final filename it
\* was called with.
C28_StoredUnderFinalName ==
    checked.location # NoLocation
    => checked.location.name = checked.final_filename

\* C29: a process started with one of the five variables unset never gets
\* past the import of config: it does not reach main, does not start polling
\* and handles no event.
C29_MissingCredentialAborts ==
    ~(Credentials \subseteq process.env)
    => /\ process.phase \in { "importing", "aborted" }
       /\ last.handler = "start"

\* C29 witness: started with everything but GITHUB_REPO set, the process
\* has aborted.
C29_Witness ==
    /\ process.env = Credentials \ { "GITHUB_REPO" }
    /\ process.phase = "aborted"

C34_RemovalOnlyByRejectOrUpload ==
    [][ /\ \A h \in DOMAIN pending_callbacks :
               (\/ h \notin DOMAIN pending_callbacks'
                \/ pending_callbacks'[h].file_id # pending_callbacks[h].file_id)
               => \/ last'.handler = "reject" /\ last'.short_id = h
                  \/ \E u \in Uploaded : u.short_id = h
        /\ last'.handler \in { "approve", "message", "tick" }
               => \A h \in DOMAIN pending_callbacks :
                      /\ h \in DOMAIN pending_callbacks'
                      /\ pending_callbacks'[h] # pending_callbacks[h]
                             => last'.handler = "approve" /\ last'.short_id = h ]_vars

\* C35: when the reviewer, having pressed approve on one held short_id,
\* presses approve on another, the session points at the second, which is
\* the one the next name will be applied to, and the first stays held in
\* AwaitingRename.
C35_LatestApproveWins ==
    [][ (/\ press.user = ADMIN_ID
         /\ press.at # NoTime
         /\ press.short_id \in DOMAIN pending_callbacks
         /\ last'.handler = "approve"
         /\ last'.user = ADMIN_ID
         /\ last'.short_id # press.short_id
         /\ last'.pre # "absent"
         /\ last'.env = AllOk)
        => /\ ADMIN_ID \in DOMAIN admin_context'
           /\ admin_context'[ADMIN_ID].last_approved_short_id = last'.short_id
           /\ StatusOf(pending_callbacks', press.short_id) = "AwaitingRename" ]_vars

\* C36: a post whose approval request did not reach the reviewer is not
\* held: every short_id held has had its request delivered.
C36_HeldOnlyIfPrompted ==
    (Admitted /\ last.reply # "approval_request")
    => last.short_id \notin DOMAIN pending_callbacks

====
